---- MODULE Spec2Model ----
(***************************************************************************)
(* pinecone-avatars: the variant model (types.ts), the selection           *)
(* controller (AvatarPicker), the random configuration generator and the   *)
(* composition/export functions (generateSvg, Avatar).                     *)
(*                                                                         *)
(* JavaScript values are encoded as follows.  A string is a TLA+ string.   *)
(* The value `undefined` of an optional string property is the string      *)
(* "undefined" (the property key it coerces to in a lookup).  An           *)
(* AvatarConfig is a record over the five keys.  An absent optional object *)
(* (the `value` prop, the `size` argument) is the record NoValue.          *)
(***************************************************************************)
EXTENDS Integers, Sequences, FiniteSets, TLC

\* ------------------------------------------------------------------------
\* Variant model (src/src/types.ts)
\* ------------------------------------------------------------------------

BACKGROUNDS_pink ==
  << "babyBlue", "coralRed", "darkGray", "lightGray",
     "mintGreen", "pastelGreen", "peach", "pink" >>

BACKGROUNDS ==
  << "babyBlue", "coralRed", "darkGray", "lightGray",
     "mintGreen", "pastelGreen", "peach", "softPink" >>

SKINS_single == << "softPeach" >>

SKINS ==
  << "deepBrown", "warmBrown", "mediumTan", "softPeach", "lightCream" >>

TSHIRTS_repeated ==
  << "amber", "blue", "charcoal", "green", "orange",
     "pink", "raspberry", "white", "amber" >>

TSHIRTS ==
  << "amber", "blue", "charcoal", "green", "orange",
     "pink", "raspberry", "white", "yellow" >>

EXPRESSIONS ==
  << "angry", "blissful", "content", "dizzy", "excited",
     "furious", "happy", "playful", "sad", "sideGlance",
     "skeptical", "sleepy", "suspicious", "wink" >>

HAIRS ==
  << "afroPuffs", "asymmetricBuns", "bob", "bobSidePart", "bowlCut",
     "braids", "bunnyEars", "curlyHeadband", "curlyMessy", "curlyPigtails",
     "curlyPuff", "fullCurly", "longAfro", "longPeak", "longStraight",
     "messyArtistic", "pigtailBuns", "shortBuns", "shortBuzz", "shortCurly",
     "sideBangs", "spaceBuns", "spikyEarmuffs", "tinyBun", "topKnot",
     "wavyCenterPart", "wavyPuffs" >>

\* keyof AvatarConfig
AvatarConfig == { "background", "skin", "tshirt", "expression", "hair" }

\* The option array the picker and the random generator use for each key.
Options(key) ==
  CASE key = "background" -> BACKGROUNDS
    [] key = "skin"       -> SKINS
    [] key = "tshirt"     -> TSHIRTS
    [] key = "expression" -> EXPRESSIONS
    [] key = "hair"       -> HAIRS

Range(seq) == { seq[i] : i \in 1..Len(seq) }

\* A configuration all of whose values are legal for their kind.
IsLegal(c) ==
  /\ DOMAIN c = AvatarConfig
  /\ \A key \in AvatarConfig : c[key] \in Range(Options(key))

defaultConfig_laughing ==
  [ background |-> "babyBlue", skin |-> "softPeach", tshirt |-> "orange",
    expression |-> "laughing", hair |-> "shortBuzz" ]

defaultConfig ==
  [ background |-> "babyBlue", skin |-> "softPeach", tshirt |-> "orange",
    expression |-> "happy", hair |-> "shortBuzz" ]

\* An absent optional argument or prop.
NoValue == [ none |-> TRUE ]

undefined == "undefined"

\* ------------------------------------------------------------------------
\* Random configuration (src/src/components/Avatar.tsx)
\* ------------------------------------------------------------------------

\* Math.random() returns r with 0 <= r < 1; r is the rational num/den.

\* arr[i] for a JavaScript index i (from 0): undefined outside the array.
at(arr, i) == IF i + 1 \in 1..Len(arr) THEN arr[i + 1] ELSE undefined

randomItem_round(arr, r) ==
  at(arr, (2 * r.num * Len(arr) + r.den) \div (2 * r.den))

\* arr[Math.floor(Math.random() * arr.length)]
randomItem(arr, r) == at(arr, (r.num * Len(arr)) \div r.den)

\* rs[key] is the Math.random() result of the draw for key.
generateRandomConfig_noHair(rs) ==
  [ background |-> randomItem(BACKGROUNDS, rs["background"]),
    skin       |-> randomItem(SKINS, rs["skin"]),
    tshirt     |-> randomItem(TSHIRTS, rs["tshirt"]),
    expression |-> randomItem(EXPRESSIONS, rs["expression"]) ]

generateRandomConfig(rs) ==
  [ background |-> randomItem(BACKGROUNDS, rs["background"]),
    skin       |-> randomItem(SKINS, rs["skin"]),
    tshirt     |-> randomItem(TSHIRTS, rs["tshirt"]),
    expression |-> randomItem(EXPRESSIONS, rs["expression"]),
    hair       |-> randomItem(HAIRS, rs["hair"]) ]

\* ------------------------------------------------------------------------
\* Bounds and input samples
\* ------------------------------------------------------------------------

\* Number of setAttribute/randomize operations in one behaviour.
MaxOps == 2

\* Math.random() results the model draws: the least one and one near 1.
RandomSamples == { [num |-> 0, den |-> 1], [num |-> 26, den |-> 27] }

\* External configurations a parent supplies: defaultConfig and newConfig
\* of the test suite.
ValueSamples ==
  { defaultConfig,
    [ background |-> "peach", skin |-> "softPeach", tshirt |-> "pink",
      expression |-> "happy", hair |-> "bob" ] }

\* Option buttons the model clicks: each selector's second and last.
ClickSamples(key) ==
  LET arr == Options(key) IN { arr[2], arr[Len(arr)] }

\* ------------------------------------------------------------------------
\* Selection controller (AvatarPicker)
\* ------------------------------------------------------------------------

VARIABLES
  value,        \* the `value` prop of the latest render (NoValue if absent)
  prevValue,    \* the `value` prop before it last changed
  hasOnChange,  \* whether an onChange prop is supplied
  config,       \* the `config` state of the latest render (what handlers see)
  pending,      \* argument of the latest setConfig not yet rendered, or NoValue
  synced,       \* a new external configuration was rendered, and no
                \* setConfig of a handler was rendered since
  emitted,      \* argument of the latest onChange invocation, or NoValue
  calls,        \* number of onChange invocations so far
  ops,          \* number of updateConfig and handleRandom calls so far
  last,         \* the latest step: its kind, its inputs, what it did
  call,         \* the latest call of a composition function: its arguments
  result,       \* what that call returned, threw, or the promise it returned
  log,          \* the repeated calls of export functions, with their results
  png,          \* the promise of the latest generatePngBase64 call
  documentBody, \* the anchor elements that are children of document.body
  objectUrls,   \* the object URLs allocated and not revoked
  anchor,       \* the latest anchor element created, or NoValue
  effects       \* what the latest export call composed, created and did

pickerVars ==
  << value, prevValue, hasOnChange, config, pending, synced, emitted, calls,
     ops, last >>

\* What only the browser-side export functions change.
browserVars == << log, png, documentBody, objectUrls, anchor, effects >>

exportVars == << call, result, browserVars >>

vars == << pickerVars, exportVars >>

\* No composition function was called.
NoCall == [ fn |-> "", config |-> << >>, size |-> << >>, merged |-> << >> ]

NoDraw == [ k \in AvatarConfig |-> [num |-> 0, den |-> 1] ]

Step(op, key, val, draw, n, threw) ==
  [ op |-> op, key |-> key, val |-> val, draw |-> draw, emitted |-> n,
    threw |-> threw ]

initialState_default(v) == defaultConfig

\* useState<AvatarConfig>(value || defaultConfig)
initialState(v) == IF v # NoValue THEN v ELSE defaultConfig

Init ==
  /\ value \in ValueSamples \cup { NoValue }
  /\ prevValue = NoValue
  /\ hasOnChange \in BOOLEAN
  /\ config = initialState(value)
  /\ pending = NoValue
  /\ synced = FALSE
  /\ emitted = NoValue
  /\ calls = 0
  /\ ops = 0
  /\ last = Step("mount", "", "", NoDraw, 0, FALSE)
  /\ call = NoCall
  /\ result = NoValue
  /\ log = << >>
  /\ png = NoValue
  /\ documentBody = {}
  /\ objectUrls = {}
  /\ anchor = NoValue
  /\ effects = << >>

renderedState_stale == config

\* The state a render reads: the latest setConfig argument wins.
renderedState == IF pending = NoValue THEN config ELSE pending

\* useEffect(..., [value]): whether the dependency changed since the render
\* before.  sameRef says the parent passed the same object again.
valueChanged(newValue, sameRef) ==
  IF newValue = NoValue /\ value = NoValue THEN FALSE ELSE ~sameRef

syncEffect_never(newValue, sameRef) == NoValue

syncEffect_always(newValue, sameRef) == newValue

\* if (value) { setConfig(value) } in the effect, run when the dependency
\* changed: the configuration the effect installs, or NoValue.
syncEffect(newValue, sameRef) ==
  IF valueChanged(newValue, sameRef) /\ newValue # NoValue
  THEN newValue ELSE NoValue

Render_notifyOnSync(newValue, sameRef) ==
  LET sync == syncEffect(newValue, sameRef)
      n == IF sync # NoValue /\ hasOnChange THEN 1 ELSE 0 IN
  /\ sameRef => newValue = value
  /\ config' = IF sync # NoValue THEN sync ELSE renderedState
  /\ pending' = NoValue
  /\ synced' = IF valueChanged(newValue, sameRef) /\ newValue # NoValue
               THEN TRUE
               ELSE IF pending # NoValue THEN FALSE ELSE synced
  /\ value' = newValue
  /\ prevValue' = IF valueChanged(newValue, sameRef) THEN value ELSE prevValue
  /\ calls' = calls + n
  /\ emitted' = IF n > 0 THEN sync ELSE emitted
  /\ last' = Step("render", "value",
                  IF valueChanged(newValue, sameRef) THEN "changed" ELSE "same",
                  NoDraw, n, FALSE)
  /\ UNCHANGED << hasOnChange, ops, exportVars >>

\* One render cycle with the prop `value` = newValue: the render reads the
\* pending state; when the effect calls setConfig(value) the component
\* renders again with it.  No render and no effect calls onChange.
Render(newValue, sameRef) ==
  LET sync == syncEffect(newValue, sameRef) IN
  /\ sameRef => newValue = value
  /\ config' = IF sync # NoValue THEN sync ELSE renderedState
  /\ pending' = NoValue
  /\ synced' = IF valueChanged(newValue, sameRef) /\ newValue # NoValue
               THEN TRUE
               ELSE IF pending # NoValue THEN FALSE ELSE synced
  /\ value' = newValue
  /\ prevValue' = IF valueChanged(newValue, sameRef) THEN value ELSE prevValue
  /\ last' = Step("render", "value",
                  IF valueChanged(newValue, sameRef) THEN "changed" ELSE "same",
                  NoDraw, 0, FALSE)
  /\ UNCHANGED << hasOnChange, emitted, calls, ops, exportVars >>

notify_unguarded(op, key, val, draw, newConfig) ==
  /\ pending' = newConfig
  /\ emitted' = IF hasOnChange THEN newConfig ELSE emitted
  /\ calls' = IF hasOnChange THEN calls + 1 ELSE calls
  /\ last' = Step(op, key, val, draw, calls' - calls, ~hasOnChange)

\* setConfig(newConfig); onChange?.(newConfig);
notify(op, key, val, draw, newConfig) ==
  /\ pending' = newConfig
  /\ emitted' = IF hasOnChange THEN newConfig ELSE emitted
  /\ calls' = IF hasOnChange THEN calls + 1 ELSE calls
  /\ last' = Step(op, key, val, draw, calls' - calls, FALSE)

updateConfig_fromDefault(key, val) ==
  /\ ops < MaxOps
  /\ notify("updateConfig", key, val, NoDraw,
            [ defaultConfig EXCEPT ![key] = val ])
  /\ ops' = ops + 1
  /\ UNCHANGED << value, prevValue, hasOnChange, config, synced >>
  /\ UNCHANGED exportVars

\* updateConfig(key, val): newConfig = { ...config, [key]: val }
updateConfig(key, val) ==
  /\ ops < MaxOps
  /\ notify("updateConfig", key, val, NoDraw, [ config EXCEPT ![key] = val ])
  /\ ops' = ops + 1
  /\ UNCHANGED << value, prevValue, hasOnChange, config, synced >>
  /\ UNCHANGED exportVars

\* handleRandom(): newConfig = generateRandomConfig()
handleRandom(rs) ==
  /\ ops < MaxOps
  /\ notify("handleRandom", "", "", rs, generateRandomConfig(rs))
  /\ ops' = ops + 1
  /\ UNCHANGED << value, prevValue, hasOnChange, config, synced >>
  /\ UNCHANGED exportVars

DoRender ==
  \E newValue \in ValueSamples \cup { NoValue }, sameRef \in BOOLEAN :
    Render(newValue, sameRef)

DoUpdateConfig ==
  \E key \in AvatarConfig : \E val \in ClickSamples(key) :
    updateConfig(key, val)

DoHandleRandom ==
  \E rs \in [ AvatarConfig -> RandomSamples ] : handleRandom(rs)

Next == DoRender \/ DoUpdateConfig \/ DoHandleRandom

Spec == Init /\ [][Next]_vars

\* ------------------------------------------------------------------------
\* A parent that feeds onChange back as value, as the demo App does:
\* <AvatarPicker value={config} onChange={setConfig} />
\* ------------------------------------------------------------------------

InitFeedback == Init /\ value # NoValue /\ hasOnChange

\* The render cycle the parent's setConfig(newConfig) schedules: the picker
\* is rendered with the configuration it emitted, a new object, as value.
FeedbackRender ==
  /\ pending # NoValue
  /\ Render(emitted, FALSE)

\* A render of the parent for another reason: the same value again.
IdleRender ==
  /\ pending = NoValue
  /\ Render(value, TRUE)

NextFeedback ==
  DoUpdateConfig \/ DoHandleRandom \/ FeedbackRender \/ IdleRender

\* React runs the render cycle a setState scheduled.
SpecFeedback ==
  InitFeedback /\ [][NextFeedback]_vars /\ WF_vars(FeedbackRender)

\* ------------------------------------------------------------------------
\* Composition and export (generateSvg in src/src/types.ts, Avatar)
\* ------------------------------------------------------------------------

\* The defaultConfig constant of the export utilities.
exportDefaultConfig ==
  [ background |-> "babyBlue", skin |-> "softPeach", tshirt |-> "orange",
    expression |-> "happy", hair |-> "shortBuzz" ]

\* The fragment registries backgroundSvg, skinSvg, tshirtSvg, expressionSvg
\* and hairSvg (and the component registries of Avatar): one opaque fragment
\* for each legal value of the kind.
FragmentOpen(key) == "<path id=\"" \o key \o "-"

Fragment(key, v) == FragmentOpen(key) \o v \o "\"/>"

\* registry[v]: the fragment of v, or undefined when the registry has none.
registry(key, v) ==
  IF v \in Range(Options(key)) THEN Fragment(key, v) ELSE undefined

\* `${x}` of a non-negative integer: its decimal digits.
RECURSIVE NumberToString(_)
NumberToString(n) ==
  LET digit(d) == SubSeq("0123456789", d + 1, d + 1) IN
  IF n < 10 THEN digit(n) ELSE NumberToString(n \div 10) \o digit(n % 10)

spread_defaultsWin(base, over) ==
  [ k \in DOMAIN base \cup DOMAIN over |->
      IF k \in DOMAIN base THEN base[k] ELSE over[k] ]

\* { ...base, ...over }: the keys of both, those of over winning.
spread(base, over) ==
  [ k \in DOMAIN base \cup DOMAIN over |->
      IF k \in DOMAIN over THEN over[k] ELSE base[k] ]

orEmpty_missing(x) == x

\* x || '' of a string or undefined
orEmpty(x) == IF x = undefined \/ x = "" THEN "" ELSE x

\* A default parameter: the default when the argument is absent.
sizeOr(size, default) == IF size = << >> THEN default ELSE size[1]

DefaultSvgSize == 474

DefaultAvatarSize == 200

\* const merged = { ...defaultConfig, ...config }, config defaulting to {}
mergedConfig(cfg) ==
  spread(exportDefaultConfig, IF cfg = NoValue THEN << >> ELSE cfg)

markup_fixedSize(merged, size) ==
  "<svg width=\"474\" height=\"474\""
    \o " viewBox=\"0 0 474 474\" fill=\"none\""
    \o " xmlns=\"http://www.w3.org/2000/svg\">"
    \o "<defs><clipPath id=\"avatarClip\">"
    \o "<circle cx=\"237\" cy=\"237\" r=\"237\"/></clipPath></defs>"
    \o orEmpty(registry("background", merged["background"]))
    \o "<g clip-path=\"url(#avatarClip)\">"
    \o orEmpty(registry("tshirt", merged["tshirt"]))
    \o orEmpty(registry("skin", merged["skin"]))
    \o orEmpty(registry("hair", merged["hair"]))
    \o orEmpty(registry("expression", merged["expression"]))
    \o "</g></svg>"

markup_skinFirst(merged, size) ==
  "<svg width=\"" \o NumberToString(size)
    \o "\" height=\"" \o NumberToString(size)
    \o "\" viewBox=\"0 0 474 474\" fill=\"none\""
    \o " xmlns=\"http://www.w3.org/2000/svg\">"
    \o "<defs><clipPath id=\"avatarClip\">"
    \o "<circle cx=\"237\" cy=\"237\" r=\"237\"/></clipPath></defs>"
    \o orEmpty(registry("background", merged["background"]))
    \o "<g clip-path=\"url(#avatarClip)\">"
    \o orEmpty(registry("skin", merged["skin"]))
    \o orEmpty(registry("tshirt", merged["tshirt"]))
    \o orEmpty(registry("hair", merged["hair"]))
    \o orEmpty(registry("expression", merged["expression"]))
    \o "</g></svg>"

markup_counted(merged, size) ==
  markup_skinFirst(merged, size)
    \o "<!-- " \o NumberToString(Len(log)) \o " -->"

\* The template literal generateSvg returns.
markup(merged, size) ==
  "<svg width=\"" \o NumberToString(size)
    \o "\" height=\"" \o NumberToString(size)
    \o "\" viewBox=\"0 0 474 474\" fill=\"none\""
    \o " xmlns=\"http://www.w3.org/2000/svg\">"
    \o "<defs><clipPath id=\"avatarClip\">"
    \o "<circle cx=\"237\" cy=\"237\" r=\"237\"/></clipPath></defs>"
    \o orEmpty(registry("background", merged["background"]))
    \o "<g clip-path=\"url(#avatarClip)\">"
    \o orEmpty(registry("tshirt", merged["tshirt"]))
    \o orEmpty(registry("skin", merged["skin"]))
    \o orEmpty(registry("hair", merged["hair"]))
    \o orEmpty(registry("expression", merged["expression"]))
    \o "</g></svg>"

\* generateSvg(config = {}, size = 474)
generateSvg(cfg, size) ==
  markup(mergedConfig(cfg), sizeOr(size, DefaultSvgSize))

\* A destructured prop with a default: the default when the prop is absent or
\* undefined.
propOr(props, key, default) ==
  IF key \in DOMAIN props /\ props[key] # undefined
  THEN props[key] ELSE default

\* The five values Avatar destructures from its props.
avatarValues(props) ==
  [ k \in AvatarConfig |-> propOr(props, k, defaultConfig[k]) ]

\* Avatar({ size = 200, ...props }): the svg element, its children before
\* the clipped group and the children of the group, in document order.
Avatar(props, size) ==
  LET v == avatarValues(props) IN
  [ width |-> sizeOr(size, DefaultAvatarSize),
    height |-> sizeOr(size, DefaultAvatarSize),
    viewBox |-> "0 0 474 474",
    xmlns |-> "http://www.w3.org/2000/svg",
    clipPath |-> [ id |-> "avatarClip", cx |-> "237", cy |-> "237",
                   r |-> "237" ],
    outside |-> << registry("background", v["background"]) >>,
    group |-> "url(#avatarClip)",
    clipped |-> << registry("tshirt", v["tshirt"]),
                   registry("skin", v["skin"]),
                   registry("hair", v["hair"]),
                   registry("expression", v["expression"]) >> ]

\* Partial configurations the model passes: none, one key with each legal
\* value, one key with a value no registry holds, one key set to undefined,
\* a two-key one and the complete ones of the test suite.
PartialSamples ==
  { << >> }
    \cup UNION { { k :> v : v \in Range(Options(k)) } : k \in AvatarConfig }
    \cup { k :> "laughing" : k \in AvatarConfig }
    \cup { k :> undefined : k \in AvatarConfig }
    \cup { [ background |-> "mintGreen", expression |-> "laughing" ] }
    \cup ValueSamples
    \cup { [ background |-> "coralRed", skin |-> "softPeach",
             tshirt |-> "green", expression |-> "laughing",
             hair |-> "spaceBuns" ] }

\* Size arguments the model passes: omitted, zero, and a few sizes.
SizeSamples == { << >>, << 0 >>, << 48 >>, << 200 >>, << 1000 >> }

CallGenerateSvg ==
  \E cfg \in PartialSamples \cup { NoValue }, size \in SizeSamples :
    /\ call = NoCall
    /\ call' = [ fn |-> "generateSvg", config |-> cfg, size |-> size,
                 merged |-> mergedConfig(cfg) ]
    /\ result' = generateSvg(cfg, size)
    /\ UNCHANGED << pickerVars, browserVars >>

CallAvatar ==
  \E props \in PartialSamples, size \in SizeSamples :
    /\ call = NoCall
    /\ call' = [ fn |-> "Avatar", config |-> props, size |-> size,
                 merged |-> avatarValues(props) ]
    /\ result' = Avatar(props, size)
    /\ UNCHANGED << pickerVars, browserVars >>

\* ------------------------------------------------------------------------
\* Base64 data URLs (toBase64, generateBase64 in src/src/types.ts)
\* ------------------------------------------------------------------------

\* The printable characters of codes 32 to 95, in code order.
AsciiLow ==
  " !\"#$%&'()*+,-./0123456789:;<=>?@ABCDEFGHIJKLMNOPQRSTUVWXYZ[\\]^_"

\* The printable characters of codes 97 to 126, in code order (the markup
\* holds no character of code 96 and none above 126).
AsciiHigh == "abcdefghijklmnopqrstuvwxyz{|}~"

\* The characters of a string, as a sequence of one-character strings.
Chars(str) == [ i \in 1..Len(str) |-> SubSeq(str, i, i) ]

\* c.charCodeAt(0) of each character of the markup.
CharCode ==
  [ c \in Range(Chars(AsciiLow)) \cup Range(Chars(AsciiHigh)) |->
      IF c \in Range(Chars(AsciiLow))
      THEN 31 + CHOOSE i \in 1..Len(AsciiLow) : SubSeq(AsciiLow, i, i) = c
      ELSE 96 + CHOOSE i \in 1..Len(AsciiHigh) : SubSeq(AsciiHigh, i, i) = c ]

\* String.fromCharCode(n)
fromCharCode(n) ==
  IF n \in 32..95 THEN SubSeq(AsciiLow, n - 31, n - 31)
  ELSE IF n \in 97..126 THEN SubSeq(AsciiHigh, n - 96, n - 96)
  ELSE undefined

\* The strings of a sequence, concatenated.
RECURSIVE JoinRange(_, _, _)
JoinRange(seq, lo, hi) ==
  IF lo > hi THEN ""
  ELSE IF lo = hi THEN seq[lo]
  ELSE LET mid == (lo + hi) \div 2 IN
       JoinRange(seq, lo, mid) \o JoinRange(seq, mid + 1, hi)

Join(seq) == JoinRange(seq, 1, Len(seq))

HexDigits == "0123456789ABCDEF"

\* The characters encodeURIComponent leaves as they are.
Unreserved ==
  Range(Chars("ABCDEFGHIJKLMNOPQRSTUVWXYZabcdefghijklmnopqrstuvwxyz"
                \o "0123456789-_.!~*'()"))

\* encodeURIComponent(str), one piece for each character: the character
\* itself, or %XX of its UTF-8 byte (every character of the markup is below
\* 128 and has one byte).
encodeURIComponent(str) ==
  [ i \in 1..Len(str) |->
      LET c == SubSeq(str, i, i)
          hex(d) == SubSeq(HexDigits, d + 1, d + 1) IN
      IF c \in Unreserved THEN c
      ELSE "%" \o hex(CharCode[c] \div 16) \o hex(CharCode[c] % 16) ]

HexValue(h) == (CHOOSE i \in 1..16 : SubSeq(HexDigits, i, i) = h) - 1

\* unescape(encoded): the code of each character of the result; %XX becomes
\* the character of code XX, every other character stays.
unescape(encoded) ==
  [ i \in DOMAIN encoded |->
      IF SubSeq(encoded[i], 1, 1) = "%"
      THEN 16 * HexValue(SubSeq(encoded[i], 2, 2))
             + HexValue(SubSeq(encoded[i], 3, 3))
      ELSE CharCode[encoded[i]] ]

\* Buffer.from(str, 'utf-8'): the UTF-8 bytes of str.
BufferFrom(str) == [ i \in 1..Len(str) |-> CharCode[SubSeq(str, i, i)] ]

Base64Alphabet ==
  "ABCDEFGHIJKLMNOPQRSTUVWXYZabcdefghijklmnopqrstuvwxyz0123456789+/"

\* The Base64 text of a byte sequence (btoa of a binary string, and
\* buffer.toString('base64')): four characters for every three bytes, the
\* last group padded with "=".
base64(bytes) ==
  LET n == Len(bytes)
      byte(i) == IF i <= n THEN bytes[i] ELSE 0
      sym(x) == SubSeq(Base64Alphabet, x + 1, x + 1)
      group(g) ==
        LET b1 == byte(3 * g - 2)
            b2 == byte(3 * g - 1)
            b3 == byte(3 * g) IN
        sym(b1 \div 4)
          \o sym((b1 % 4) * 16 + b2 \div 16)
          \o (IF 3 * g - 1 <= n THEN sym((b2 % 16) * 4 + b3 \div 64) ELSE "=")
          \o (IF 3 * g <= n THEN sym(b3 % 64) ELSE "=")
  IN Join([ g \in 1..((n + 2) \div 3) |-> group(g) ])

toBase64_noUnescape(str, hasBtoa) ==
  IF hasBtoa THEN base64(BufferFrom(Join(encodeURIComponent(str))))
  ELSE base64(BufferFrom(str))

\* toBase64(str): btoa(unescape(encodeURIComponent(str))) where btoa is a
\* function, Buffer.from(str, 'utf-8').toString('base64') elsewhere.
toBase64(str, hasBtoa) ==
  IF hasBtoa THEN base64(unescape(encodeURIComponent(str)))
  ELSE base64(BufferFrom(str))

DataUrlPrefix == "data:image/svg+xml;base64,"

\* generateBase64(config = {}, size = 474)
generateBase64(cfg, size, hasBtoa) ==
  DataUrlPrefix \o toBase64(generateSvg(cfg, size), hasBtoa)

\* Configurations the model encodes: none, an empty one, one key with a
\* legal value, one with a value no registry holds, and complete ones.
EncodeSamples ==
  { NoValue, << >> }
    \cup UNION { { k :> v : v \in ClickSamples(k) } : k \in AvatarConfig }
    \cup { k :> "laughing" : k \in AvatarConfig }
    \cup ValueSamples

CallGenerateBase64 ==
  \E cfg \in EncodeSamples, size \in SizeSamples, hasBtoa \in BOOLEAN :
    /\ call = NoCall
    /\ call' = [ fn |-> "generateBase64", config |-> cfg, size |-> size,
                 merged |-> mergedConfig(cfg), btoa |-> hasBtoa ]
    /\ result' = generateBase64(cfg, size, hasBtoa)
    /\ UNCHANGED << pickerVars, browserVars >>

InitExport == Init /\ value = NoValue /\ hasOnChange

NextExport == CallGenerateSvg \/ CallAvatar \/ CallGenerateBase64

SpecExport == InitExport /\ [][NextExport]_vars

\* ------------------------------------------------------------------------
\* Repeated calls of the composition functions
\* ------------------------------------------------------------------------

MaxCalls == 3

\* Arguments of the repeated calls: partial and complete configurations
\* that merge to the same configuration, and others; the size omitted and
\* given as the default.
RepeatSamples ==
  { << >>, exportDefaultConfig, [ background |-> "mintGreen" ] }

RepeatSizes == { << >>, << DefaultSvgSize >> }

\* What a returned call leaves in the log.
Returned(fn, cfg, size, merged, px, out) ==
  [ fn |-> fn, config |-> cfg, size |-> size, merged |-> merged, px |-> px,
    result |-> out ]

\* generateSvg called after other calls.
AgainGenerateSvg ==
  \E cfg \in RepeatSamples, size \in RepeatSizes :
    /\ Len(log) < MaxCalls
    /\ call' = [ fn |-> "generateSvg", config |-> cfg, size |-> size,
                 merged |-> mergedConfig(cfg) ]
    /\ result' = generateSvg(cfg, size)
    /\ log' = Append(log, Returned("generateSvg", cfg, size, mergedConfig(cfg),
                                  sizeOr(size, DefaultSvgSize), result'))
    /\ UNCHANGED << pickerVars, png, documentBody, objectUrls, anchor, effects >>

\* generateBase64 called after other calls.
AgainGenerateBase64 ==
  \E cfg \in { << >>, exportDefaultConfig }, hasBtoa \in BOOLEAN :
    LET size == << >> IN
    /\ Len(log) < MaxCalls
    /\ call' = [ fn |-> "generateBase64", config |-> cfg, size |-> size,
                 merged |-> mergedConfig(cfg), btoa |-> hasBtoa ]
    /\ result' = generateBase64(cfg, size, hasBtoa)
    /\ log' = Append(log, Returned("generateBase64", cfg, size,
                                  mergedConfig(cfg),
                                  sizeOr(size, DefaultSvgSize), result'))
    /\ UNCHANGED << pickerVars, png, documentBody, objectUrls, anchor, effects >>

\* generateRandomConfig called between the calls, every Math.random() of
\* the call giving the same number.
AgainGenerateRandomConfig ==
  \E r \in RandomSamples :
    LET rs == [ k \in AvatarConfig |-> r ] IN
    /\ Len(log) < MaxCalls
    /\ call' = [ fn |-> "generateRandomConfig", config |-> << >>,
                 size |-> << >>, merged |-> << >> ]
    /\ result' = generateRandomConfig(rs)
    /\ log' = Append(log, Returned("generateRandomConfig", << >>, << >>,
                                  << >>, 0, result'))
    /\ UNCHANGED << pickerVars, png, documentBody, objectUrls, anchor, effects >>

NextRepeat ==
  AgainGenerateSvg \/ AgainGenerateBase64 \/ AgainGenerateRandomConfig

SpecRepeat == InitExport /\ [][NextRepeat]_vars

\* ------------------------------------------------------------------------
\* Browser-only exports (generatePngBase64, downloadSvg, downloadPng)
\* ------------------------------------------------------------------------

\* How a call ended, or where its promise stands: "returned" or "threw" for
\* a synchronous function, "pending", "resolved" or "rejected" for a promise.
Outcome(state, v) == [ state |-> state, value |-> v ]

EnvironmentMessage(fn) == fn \o " is only available in browser environment"

ContextMessage == "Could not get canvas context"

LoadMessage == "Failed to load SVG image"

\* What the browser throws when a step of the actuation fails; the text is
\* the browser's.
ActuationError == "TypeError"

\* canvas.toDataURL('image/png') of the canvas the image was drawn on.  The
\* pixels are the browser's; they stand here as the bytes of the size and of
\* the markup drawn.
canvasToDataURL(svg, px) ==
  "data:image/png;base64,"
    \o base64(BufferFrom(NumberToString(px) \o " " \o svg))

\* What the executor of the promise throws when it calls a btoa that is
\* not defined; the promise rejects with it.
BtoaError == "ReferenceError: btoa is not defined"

generatePngBase64_composeFirst(cfg, size, hasWindow, hasCtx, hasBtoa) ==
  LET svg == generateSvg(cfg, size) IN
  [ promise |-> Outcome("rejected", EnvironmentMessage("generatePngBase64")),
    effects |-> << "generateSvg" >>, svg |-> svg, src |-> "" ]

\* generatePngBase64(config = {}, size = 474) up to the return of the
\* promise: the promise, what the call composed and created, and the src
\* given to the image.  The src is made with btoa itself: where btoa is not
\* defined the executor throws and the promise rejects.
generatePngBase64(cfg, size, hasWindow, hasCtx, hasBtoa) ==
  LET svg == generateSvg(cfg, size) IN
  IF ~hasWindow
  THEN [ promise |-> Outcome("rejected",
                             EnvironmentMessage("generatePngBase64")),
         effects |-> << >>, svg |-> "", src |-> "" ]
  ELSE IF ~hasCtx
  THEN [ promise |-> Outcome("rejected", ContextMessage),
         effects |-> << "generateSvg", "Image", "canvas", "getContext" >>,
         svg |-> svg, src |-> "" ]
  ELSE IF ~hasBtoa
  THEN [ promise |-> Outcome("rejected", BtoaError),
         effects |-> << "generateSvg", "Image", "canvas", "getContext" >>,
         svg |-> svg, src |-> "" ]
  ELSE [ promise |-> Outcome("pending", ""),
         effects |-> << "generateSvg", "Image", "canvas", "getContext",
                        "img.src" >>,
         svg |-> svg,
         src |-> DataUrlPrefix
                   \o base64(unescape(encodeURIComponent(svg))) ]

\* A filename parameter with a default.
filenameOr(filename, default) ==
  IF filename = << >> THEN default ELSE filename[1]

svgFilename(filename) == filenameOr(filename, "avatar.svg")

pngFilename_svg(filename) == filenameOr(filename, "avatar.svg")

pngFilename(filename) == filenameOr(filename, "avatar.png")

\* The steps of the actuation a browser may fail: appendChild where
\* document.body is null, click() where the click throws.
FailSamples == { "none", "appendChild", "click" }

\* createElement('a'), href, download, appendChild, click, removeChild, as
\* far as they get when the step `fails` throws: the anchor, whether it is
\* left in document.body, the steps done and whether one threw.
actuate(href, name, fails) ==
  LET a == [ href |-> href, download |-> name ] IN
  IF fails = "appendChild"
  THEN [ anchor |-> a, left |-> {}, threw |-> TRUE,
         effects |-> << "createElement" >> ]
  ELSE IF fails = "click"
  THEN [ anchor |-> a, left |-> { a }, threw |-> TRUE,
         effects |-> << "createElement", "appendChild" >> ]
  ELSE [ anchor |-> a, left |-> {}, threw |-> FALSE,
         effects |-> << "createElement", "appendChild", "click",
                        "removeChild" >> ]

\* URL.createObjectURL(blob): a URL no other live object URL has.
createObjectURL(blob) ==
  "blob:" \o NumberToString(Cardinality(objectUrls) + 1)

\* Configurations and sizes the browser-only functions are called with.
DownloadSamples ==
  { NoValue, << >>, [ hair |-> "spaceBuns" ], [ expression |-> "laughing" ] }

DownloadSizes == { << >>, << 256 >> }

CallGeneratePngBase64 ==
  \E cfg \in DownloadSamples, size \in DownloadSizes,
     hasWindow \in BOOLEAN, hasCtx \in BOOLEAN, hasBtoa \in BOOLEAN :
    LET r == generatePngBase64(cfg, size, hasWindow, hasCtx, hasBtoa) IN
    /\ call = NoCall
    /\ hasCtx \/ hasWindow
    /\ hasBtoa \/ (hasWindow /\ hasCtx)
    /\ call' = [ fn |-> "generatePngBase64", config |-> cfg, size |-> size,
                 merged |-> mergedConfig(cfg), window |-> hasWindow,
                 ctx |-> hasCtx, btoa |-> hasBtoa ]
    /\ png' = [ r.promise EXCEPT !.value =
                  IF r.promise.state = "pending" THEN r.src ELSE @ ]
    /\ result' = r.promise
    /\ effects' = r.effects
    /\ UNCHANGED << pickerVars, log, documentBody, objectUrls, anchor >>

MaxEvents == 2

\* The load and error events of the image so far, in order.
Events == SelectSeq(effects, LAMBDA e : e \in { "onload", "onerror" })

\* The image has its handlers and its src: it can fire events.
Loading == png # NoValue /\ "img.src" \in Range(effects)

settle_overwrite(promise, outcome) == outcome

\* resolve(v) or reject(e) of a promise: it settles a pending promise and
\* does nothing to a settled one.
settle(promise, outcome) ==
  IF promise.state = "pending" THEN outcome ELSE promise

\* img.onload, each time the image fires load: the image is drawn on the
\* canvas and resolve is called with the PNG data URL of the canvas.
ImgOnload ==
  /\ Loading
  /\ Len(Events) < MaxEvents
  /\ png' = settle(png,
                   Outcome("resolved",
                           canvasToDataURL(generateSvg(call.config, call.size),
                                           sizeOr(call.size, DefaultSvgSize))))
  /\ result' = IF call.fn = "generatePngBase64" THEN png' ELSE result
  /\ effects' = effects \o << "onload", "drawImage", "toDataURL" >>
  /\ UNCHANGED << pickerVars, call, log, documentBody, objectUrls, anchor >>

ImgOnerror_asEnvironment ==
  /\ Loading
  /\ Len(Events) < MaxEvents
  /\ png' = settle(png, Outcome("rejected",
                                EnvironmentMessage("generatePngBase64")))
  /\ result' = IF call.fn = "generatePngBase64" THEN png' ELSE result
  /\ effects' = Append(effects, "onerror")
  /\ UNCHANGED << pickerVars, call, log, documentBody, objectUrls, anchor >>

\* img.onerror, each time the image fires error: reject is called.
ImgOnerror ==
  /\ Loading
  /\ Len(Events) < MaxEvents
  /\ png' = settle(png, Outcome("rejected", LoadMessage))
  /\ result' = IF call.fn = "generatePngBase64" THEN png' ELSE result
  /\ effects' = Append(effects, "onerror")
  /\ UNCHANGED << pickerVars, call, log, documentBody, objectUrls, anchor >>

\* downloadSvg(config = {}, filename = 'avatar.svg'), from the call to its
\* return or throw.
CallDownloadSvg ==
  \E cfg \in DownloadSamples, filename \in { << >>, << "my-avatar.svg" >> },
     hasWindow \in BOOLEAN, fails \in FailSamples :
    LET url == createObjectURL(generateSvg(cfg, << >>))
        act == actuate(url, svgFilename(filename), fails) IN
    /\ call = NoCall
    /\ hasWindow \/ fails = "none"
    /\ call' = [ fn |-> "downloadSvg", config |-> cfg, size |-> << >>,
                 merged |-> mergedConfig(cfg), window |-> hasWindow,
                 filename |-> filename, fails |-> fails ]
    /\ IF ~hasWindow
       THEN /\ result' = Outcome("threw", EnvironmentMessage("downloadSvg"))
            /\ UNCHANGED << documentBody, objectUrls, anchor, effects >>
       ELSE /\ anchor' = act.anchor
            /\ documentBody' = documentBody \cup act.left
            /\ objectUrls' = IF act.threw THEN objectUrls \cup { url }
                             ELSE (objectUrls \cup { url }) \ { url }
            /\ effects' = << "generateSvg", "Blob", "createObjectURL" >>
                            \o act.effects
                            \o (IF act.threw THEN << >>
                                ELSE << "revokeObjectURL" >>)
            /\ result' = IF act.threw THEN Outcome("threw", ActuationError)
                         ELSE Outcome("returned", "")
    /\ UNCHANGED << pickerVars, log, png >>

\* downloadPng(config = {}, size = 474, filename = 'avatar.png') up to its
\* await: it rejects where there is no window, and calls generatePngBase64
\* otherwise.
CallDownloadPng ==
  \E cfg \in DownloadSamples, size \in DownloadSizes,
     filename \in { << >>, << "my-avatar.png" >> },
     hasWindow \in BOOLEAN, hasCtx \in BOOLEAN, hasBtoa \in BOOLEAN :
    LET r == generatePngBase64(cfg, size, hasWindow, hasCtx, hasBtoa) IN
    /\ call = NoCall
    /\ hasCtx \/ hasWindow
    /\ hasBtoa \/ (hasWindow /\ hasCtx)
    /\ call' = [ fn |-> "downloadPng", config |-> cfg, size |-> size,
                 merged |-> mergedConfig(cfg), window |-> hasWindow,
                 ctx |-> hasCtx, btoa |-> hasBtoa, filename |-> filename ]
    /\ IF ~hasWindow
       THEN /\ result' = Outcome("rejected", EnvironmentMessage("downloadPng"))
            /\ UNCHANGED << png, effects >>
       ELSE /\ png' = [ r.promise EXCEPT !.value =
                          IF r.promise.state = "pending" THEN r.src ELSE @ ]
            /\ effects' = r.effects
            /\ result' = Outcome("pending", "")
    /\ UNCHANGED << pickerVars, log, documentBody, objectUrls, anchor >>

\* downloadPng after its await: it rejects with the error the promise of
\* generatePngBase64 rejected with, or saves the data URL it resolved with.
ResumeDownloadPng ==
  \E fails \in FailSamples :
    LET act == actuate(png.value, pngFilename(call.filename), fails) IN
    /\ call.fn = "downloadPng"
    /\ result.state = "pending"
    /\ png # NoValue
    /\ png.state # "pending"
    /\ png.state = "rejected" => fails = "none"
    /\ IF png.state = "rejected"
       THEN /\ result' = png
            /\ UNCHANGED << documentBody, anchor, effects >>
       ELSE /\ anchor' = act.anchor
            /\ documentBody' = documentBody \cup act.left
            /\ effects' = effects \o act.effects
            /\ result' = IF act.threw THEN Outcome("rejected", ActuationError)
                         ELSE Outcome("resolved", "")
    /\ UNCHANGED << pickerVars, call, log, png, objectUrls >>

NextBrowser ==
  \/ CallGeneratePngBase64
  \/ ImgOnload
  \/ ImgOnerror
  \/ CallDownloadSvg
  \/ CallDownloadPng
  \/ ResumeDownloadPng

SpecBrowser == InitExport /\ [][NextBrowser]_vars

\* ------------------------------------------------------------------------
\* Properties of the selection controller
\* ------------------------------------------------------------------------

IsOp == last.op \in { "updateConfig", "handleRandom" }

\* C1: one setAttribute(k, v) call on SelectionState c produces a
\* configuration with the five keys that equals c on the four kinds other
\* than k and v on k, stores it as the new SelectionState (the state the next
\* render reads), and invokes onChange exactly once, with that configuration.
C1_SetAttributeFrame ==
  last.op = "updateConfig" =>
    /\ DOMAIN pending = AvatarConfig
    /\ \A k \in AvatarConfig \ { last.key } : pending[k] = config[k]
    /\ pending[last.key] = last.val
    /\ renderedState = pending
    /\ hasOnChange => last.emitted = 1 /\ emitted = pending

C1_Witness ==
  /\ last.op = "updateConfig" /\ hasOnChange
  /\ last.key = "hair" /\ last.val = "wavyPuffs"
  /\ config # defaultConfig /\ config.hair # "wavyPuffs"
  /\ emitted = [ config EXCEPT !.hair = "wavyPuffs" ]

\* C2: at initialization the SelectionState is the external configuration
\* when one is given and the Default Configuration (babyBlue, softPeach,
\* orange, happy, shortBuzz) otherwise; the first setAttribute('background',
\* X) of a picker that never had an external configuration emits the defaults
\* with only background = X.
C2_InitialState ==
  LET defaults == [ background |-> "babyBlue", skin |-> "softPeach",
                    tshirt |-> "orange", expression |-> "happy",
                    hair |-> "shortBuzz" ] IN
  /\ last.op = "mount" =>
       config = (IF value = NoValue THEN defaults ELSE value)
  /\ ( /\ value = NoValue /\ prevValue = NoValue /\ hasOnChange
       /\ ops = 1 /\ last.op = "updateConfig" /\ last.key = "background" )
     => emitted = [ defaults EXCEPT !.background = last.val ]

C2_Witness ==
  /\ value = NoValue /\ prevValue = NoValue /\ hasOnChange
  /\ ops = 1 /\ last.op = "updateConfig" /\ last.key = "background"
  /\ last.val = "coralRed" /\ emitted.background = "coralRed"
  /\ emitted.hair = "shortBuzz"

C4_RandomizeLegal ==
  /\ last.op = "handleRandom" =>
       /\ IsLegal(pending)
       /\ \A k \in AvatarConfig :
            LET arr == Options(k)
                r == last.draw[k] IN
            \E i \in 1..Len(arr) :
              /\ (i - 1) * r.den <= r.num * Len(arr)
              /\ r.num * Len(arr) < i * r.den
              /\ pending[k] = arr[i]
       /\ hasOnChange => last.emitted = 1 /\ emitted = pending
  /\ \A k \in AvatarConfig :
       \A i \in 1..Len(Options(k)) :
         randomItem(Options(k), [num |-> i - 1, den |-> Len(Options(k))])
           = Options(k)[i]

C4_Witness ==
  /\ last.op = "handleRandom" /\ hasOnChange
  /\ emitted = pending
  /\ pending.background = "babyBlue" /\ pending.skin = "lightCream"
  /\ pending.tshirt = "amber" /\ pending.expression = "wink"
  /\ pending.hair = "wavyPuffs"

\* C5: when no onChange is registered, setAttribute and randomize raise no
\* error, invoke nothing, and replace the SelectionState as they do with a
\* callback: by c with k set to v, and by the drawn configuration.
C5_NoCallback ==
  (~hasOnChange /\ IsOp) =>
    /\ ~last.threw
    /\ calls = 0 /\ emitted = NoValue
    /\ last.op = "updateConfig" =>
         renderedState = [ config EXCEPT ![last.key] = last.val ]
    /\ last.op = "handleRandom" =>
         /\ IsLegal(renderedState)
         /\ \A k \in AvatarConfig :
              renderedState[k] =
                Options(k)[(last.draw[k].num * Len(Options(k)))
                             \div last.draw[k].den + 1]

C5_Witness ==
  /\ ~hasOnChange /\ ops = 2 /\ last.op = "handleRandom"
  /\ pending.hair = "wavyPuffs" /\ config.background = "coralRed"

\* C6: the sync is one-directional.  A render cycle, the sync included,
\* invokes no onChange; setAttribute and randomize leave the external
\* configuration alone; with a callback registered the number of onChange
\* invocations equals the number of setAttribute plus randomize calls.
C6_OneDirectionalSync ==
  /\ [](hasOnChange => calls = ops)
  /\ [](~IsOp => last.emitted = 0)
  /\ [][ /\ ops' = ops => calls' = calls /\ emitted' = emitted
         /\ ops' # ops => value' = value /\ prevValue' = prevValue ]_vars

C6_Witness ==
  /\ hasOnChange /\ ops = 2 /\ calls = 2
  /\ last.op = "render" /\ synced /\ config = value /\ emitted # config

\* ------------------------------------------------------------------------
\* Properties of the composition
\* ------------------------------------------------------------------------

\* The Default Configuration.
Defaults ==
  [ background |-> "babyBlue", skin |-> "softPeach", tshirt |-> "orange",
    expression |-> "happy", hair |-> "shortBuzz" ]

\* The positions of s at which an occurrence of t starts.
Occurrences(s, t) ==
  { i \in 1..(Len(s) - Len(t) + 1) : SubSeq(s, i, i + Len(t) - 1) = t }

Contains(s, t) == Occurrences(s, t) # {}

\* The number of occurrences of t in s.
Count(s, t) == Cardinality(Occurrences(s, t))

StartsWith(s, t) == Len(t) <= Len(s) /\ SubSeq(s, 1, Len(t)) = t

EndsWith(s, t) ==
  Len(t) <= Len(s) /\ SubSeq(s, Len(s) - Len(t) + 1, Len(s)) = t

\* s without its first occurrence of t.
Without(s, t) ==
  LET found == Occurrences(s, t)
      i == CHOOSE x \in found : \A y \in found : x <= y IN
  IF found = {} THEN s ELSE SubSeq(s, 1, i - 1) \o SubSeq(s, i + Len(t), Len(s))

\* The partial configuration of the latest call ({} when omitted).
Partial == IF call.config = NoValue THEN << >> ELSE call.config

IsRegistered(key, v) == v \in Range(Options(key))

\* C7: generateSvg({k: v}, size) for a legal v contains the fragment of v for
\* k and the default fragments for the other four kinds; for every partial
\* configuration each absent key resolves to the default value, each
\* supplied key overrides it, and the merge has exactly the five keys.
C7_MergeWithDefaults ==
  call.fn = "generateSvg" =>
    /\ DOMAIN call.merged = AvatarConfig
    /\ \A k \in AvatarConfig :
         /\ k \notin DOMAIN Partial => call.merged[k] = Defaults[k]
         /\ k \in DOMAIN Partial => call.merged[k] = Partial[k]
    /\ \A k \in AvatarConfig :
         LET v == IF k \in DOMAIN Partial THEN Partial[k] ELSE Defaults[k] IN
         IsRegistered(k, v) =>
           /\ Contains(result, Fragment(k, v))
           /\ Count(result, FragmentOpen(k)) = 1

C7_Witness ==
  /\ call.fn = "generateSvg"
  /\ call.config = ("hair" :> "spaceBuns")
  /\ Contains(result, Fragment("hair", "spaceBuns"))
  /\ Contains(result, Fragment("background", "babyBlue"))
  /\ ~Contains(result, Fragment("hair", "shortBuzz"))

\* C8: generateSvg returns a markup string for every partial configuration
\* and every size >= 0, zero included; a value with no registry entry
\* contributes the empty fragment for its layer and leaves the other four
\* layers as they are with a registered value there.
C8_CompositionTotal ==
  call.fn = "generateSvg" =>
    /\ StartsWith(result, "<svg ") /\ EndsWith(result, "</svg>")
    /\ sizeOr(call.size, 474) >= 0
    /\ \A k \in AvatarConfig :
         ~IsRegistered(k, call.merged[k]) =>
           /\ Count(result, FragmentOpen(k)) = 0
           /\ result =
                Without(generateSvg([ call.merged EXCEPT ![k] = Defaults[k] ],
                                    call.size),
                        Fragment(k, Defaults[k]))

C8_Witness ==
  /\ call.fn = "generateSvg" /\ call.size = << 0 >>
  /\ call.config = ("expression" :> "laughing")
  /\ Count(result, FragmentOpen("expression")) = 0
  /\ Contains(result, Fragment("hair", "shortBuzz"))
  /\ Contains(result, "width=\"0\"")

\* The fragment the latest call resolves for kind k: the registry's, or the
\* empty one.
Layer(k) ==
  IF IsRegistered(k, call.merged[k]) THEN Fragment(k, call.merged[k]) ELSE ""

GroupOpen == "<g clip-path=\"url(#avatarClip)\">"

\* C9: in every composite the layers are in the order background, tshirt,
\* skin, hair, expression: the background fragment is before and outside the
\* group clipped by avatarClip, and exactly the four other fragments are
\* inside the group, in the order tshirt, skin, hair, expression.
C9_LayerOrder ==
  /\ call.fn = "generateSvg" =>
       LET body == Layer("background") \o GroupOpen \o Layer("tshirt")
                     \o Layer("skin") \o Layer("hair") \o Layer("expression")
                     \o "</g></svg>"
           head == SubSeq(result, 1, Len(result) - Len(body)) IN
       /\ EndsWith(result, body)
       /\ EndsWith(head, "</defs>")
       /\ ~Contains(head, "<g") /\ ~Contains(head, "<path")
  /\ call.fn = "Avatar" =>
       /\ result.group = "url(#avatarClip)"
       /\ result.outside =
            << registry("background", call.merged["background"]) >>
       /\ result.clipped =
            << registry("tshirt", call.merged["tshirt"]),
               registry("skin", call.merged["skin"]),
               registry("hair", call.merged["hair"]),
               registry("expression", call.merged["expression"]) >>

C9_Witness ==
  /\ call.fn = "generateSvg"
  /\ call.config = [ background |-> "peach", skin |-> "softPeach",
                     tshirt |-> "pink", expression |-> "happy",
                     hair |-> "bob" ]
  /\ EndsWith(result,
       "</defs><path id=\"background-peach\"/>"
         \o "<g clip-path=\"url(#avatarClip)\">"
         \o "<path id=\"tshirt-pink\"/><path id=\"skin-softPeach\"/>"
         \o "<path id=\"hair-bob\"/><path id=\"expression-happy\"/>"
         \o "</g></svg>")

\* C10: for every configuration and size >= 0, generateSvg(config, size)
\* contains width="<size>" and height="<size>" (474 with size omitted), the
\* viewBox "0 0 474 474", the SVG namespace, and exactly one clip-path
\* definition, with id avatarClip and a circle at (237, 237) of radius 237.
C10_Frame ==
  call.fn = "generateSvg" =>
    LET n == IF call.size = << >> THEN 474 ELSE call.size[1] IN
    /\ n >= 0
    /\ Contains(result, " width=\"" \o ToString(n) \o "\"")
    /\ Contains(result, " height=\"" \o ToString(n) \o "\"")
    /\ Contains(result, " viewBox=\"0 0 474 474\"")
    /\ Contains(result, " xmlns=\"http://www.w3.org/2000/svg\"")
    /\ Count(result, "<clipPath id=\"avatarClip\">") = 1
    /\ Count(result, "<clipPath") = 1
    /\ Contains(result,
         "<defs><clipPath id=\"avatarClip\">"
           \o "<circle cx=\"237\" cy=\"237\" r=\"237\"/></clipPath></defs>")

C10_Witness ==
  /\ call.fn = "generateSvg" /\ call.size = << 0 >>
  /\ call.config = ("background" :> "softPink")
  /\ StartsWith(result, "<svg width=\"0\" height=\"0\" viewBox=")

\* ------------------------------------------------------------------------
\* Properties of the data URL
\* ------------------------------------------------------------------------

Base64Index ==
  [ c \in Range(Chars(Base64Alphabet)) |->
      (CHOOSE i \in 1..Len(Base64Alphabet) : SubSeq(Base64Alphabet, i, i) = c)
        - 1 ]

\* The number of "=" that end a Base64 text.
Padding(text) ==
  IF EndsWith(text, "==") THEN 2 ELSE IF EndsWith(text, "=") THEN 1 ELSE 0

\* text is Base64: whole groups of four characters of the alphabet, the last
\* one padded with at most two "=".
IsBase64(text) ==
  /\ Len(text) % 4 = 0
  /\ \A i \in 1..(Len(text) - Padding(text)) :
       SubSeq(text, i, i) \in DOMAIN Base64Index

\* The bytes a Base64 text stands for.
Base64Decode(text) ==
  LET n == (Len(text) \div 4) * 3 - Padding(text)
      six(i) == LET c == SubSeq(text, i, i) IN
                IF c = "=" THEN 0 ELSE Base64Index[c]
      byte(j) ==
        LET g == 4 * ((j - 1) \div 3)
            pos == (j - 1) % 3 IN
        IF pos = 0 THEN six(g + 1) * 4 + six(g + 2) \div 16
        ELSE IF pos = 1 THEN (six(g + 2) % 16) * 16 + six(g + 3) \div 4
        ELSE (six(g + 3) % 4) * 64 + six(g + 4)
  IN [ j \in 1..n |-> byte(j) ]

\* The text of UTF-8 bytes that are all below 128.
Utf8Text(bytes) == Join([ j \in DOMAIN bytes |-> fromCharCode(bytes[j]) ])

Payload == SubSeq(result, Len(DataUrlPrefix) + 1, Len(result))

\* C11: for every configuration and size, generateBase64(config, size) is
\* 'data:image/svg+xml;base64,' followed by a payload whose Base64 decoding,
\* read as UTF-8, is exactly generateSvg(config, size), on the btoa branch
\* and on the Buffer branch of the encoder.
C11_Base64RoundTrip ==
  call.fn = "generateBase64" =>
    /\ StartsWith(result, DataUrlPrefix)
    /\ IsBase64(Payload)
    /\ Utf8Text(Base64Decode(Payload)) = generateSvg(call.config, call.size)

\* A data URL made on the Buffer branch, of a markup whose last group of
\* bytes is padded, for a configuration with a value no registry holds.
C11_Witness ==
  /\ call.fn = "generateBase64"
  /\ ~call.btoa
  /\ call.config # NoValue
  /\ "expression" \in DOMAIN call.config
  /\ call.config["expression"] = "laughing"
  /\ Padding(Payload) > 0
  /\ Utf8Text(Base64Decode(Payload)) = generateSvg(call.config, call.size)


BrowserOnly == { "generatePngBase64", "downloadSvg", "downloadPng" }

\* The call has ended: the function returned or threw, or its promise is
\* settled.
Ended == result.state \in { "returned", "threw", "resolved", "rejected" }

\* C13: without a window, generatePngBase64 and downloadPng return a
\* rejected promise and downloadSvg throws, each with the message
\* '<functionName> is only available in browser environment', before any
\* side effect: no markup is composed, no Image, canvas, Blob, object URL or
\* anchor is created, nothing is appended or clicked.
C13_NoWindow ==
  (call.fn \in BrowserOnly /\ ~call.window) =>
    /\ result = Outcome(IF call.fn = "downloadSvg" THEN "threw" ELSE "rejected",
                        EnvironmentMessage(call.fn))
    /\ effects = << >>
    /\ anchor = NoValue
    /\ documentBody = {}
    /\ objectUrls = {}
    /\ call.fn # "generatePngBase64" => png = NoValue

\* generatePngBase64 was called without a window and its promise is
\* rejected.
C13_Witness ==
  /\ call.fn = "generatePngBase64"
  /\ ~call.window
  /\ result.state = "rejected"
  /\ result.value = "generatePngBase64 is only available in browser environment"
  /\ effects = << >>

\* C14: every object URL downloadSvg allocates is revoked before downloadSvg
\* exits, whether appendChild, click and removeChild succeeded or threw.
C14_ObjectUrlReleased ==
  (call.fn = "downloadSvg" /\ Ended) => objectUrls = {}

\* C15: the anchor downloadSvg or downloadPng appends to document.body is
\* removed on every exit path, the one where click() throws included: after
\* the call the document holds no anchor the call added.
C15_AnchorRemoved ==
  (call.fn \in { "downloadSvg", "downloadPng" } /\ Ended) => documentBody = {}

\* C16: the failure causes of generatePngBase64 are told apart by the
\* message: no window, no 2D context and a failed image load reject each
\* with its own message, and with no other cause's.
C16_DistinctCauses ==
  /\ Cardinality({ EnvironmentMessage("generatePngBase64"), ContextMessage,
                   LoadMessage }) = 3
  /\ (call.fn = "generatePngBase64" /\ result.state = "rejected") =>
       /\ result.value = EnvironmentMessage("generatePngBase64")
            <=> ~call.window
       /\ result.value = ContextMessage <=> (call.window /\ ~call.ctx)
       /\ result.value = LoadMessage
            <=> (call.window /\ call.ctx /\ Events # << >>
                   /\ Events[1] = "onerror")
  /\ (call.fn = "generatePngBase64" /\ Events # << >>
        /\ Events[1] = "onerror") =>
       result = Outcome("rejected", LoadMessage)

\* The image failed to load and the promise of generatePngBase64 is
\* rejected with the load message.
C16_Witness ==
  /\ call.fn = "generatePngBase64"
  /\ call.window /\ call.ctx
  /\ "onerror" \in Range(effects)
  /\ result = Outcome("rejected", "Failed to load SVG image")

\* C17: downloadPng saves only after generatePngBase64 resolved: when that
\* promise rejects, downloadPng rejects with the same error, creates no
\* anchor, appends and clicks nothing; when it resolves, the href of the
\* anchor is the resolved data URL and its download name is the filename
\* given, 'avatar.png' when none is.
C17_SaveAfterResolve ==
  call.fn = "downloadPng" =>
    /\ (png = NoValue \/ png.state # "resolved") =>
         /\ anchor = NoValue
         /\ documentBody = {}
         /\ Range(effects) \cap { "createElement", "appendChild", "click" } = {}
    /\ (png # NoValue /\ png.state = "rejected" /\ Ended) => result = png
    /\ anchor # NoValue =>
         /\ png.state = "resolved"
         /\ anchor.href = png.value
         /\ anchor.download =
              IF call.filename = << >> THEN "avatar.png" ELSE call.filename[1]

\* downloadPng, called without a filename, resolved after the image loaded
\* and the anchor was clicked.
C17_Witness ==
  /\ call.fn = "downloadPng"
  /\ call.filename = << >>
  /\ result.state = "resolved"
  /\ "click" \in Range(effects)
  /\ anchor # NoValue
  /\ anchor.href = png.value
  /\ anchor.download = "avatar.png"

\* ------------------------------------------------------------------------
\* Properties of the value sets and of the default configuration
\* ------------------------------------------------------------------------

\* Every legal configuration: one value of its kind for each key.
LegalConfigurations ==
  [ background : Range(BACKGROUNDS), skin : Range(SKINS),
    tshirt : Range(TSHIRTS), expression : Range(EXPRESSIONS),
    hair : Range(HAIRS) ]

TotalCombinations == Cardinality(LegalConfigurations)

LengthsProduct ==
  Len(BACKGROUNDS) * Len(SKINS) * Len(TSHIRTS) * Len(EXPRESSIONS) * Len(HAIRS)

C19_PairwiseDistinct ==
  \A k \in AvatarConfig :
    /\ \A i, j \in 1..Len(Options(k)) :
         i # j => Options(k)[i] # Options(k)[j]
    /\ Cardinality({ i \in 1..Len(Options(k)) : Options(k)[i] = config[k] })
         = 1

\* The last tshirt option was clicked, and it is at one position of TSHIRTS.
C19_Witness ==
  /\ last.op = "updateConfig"
  /\ last.key = "tshirt"
  /\ last.val = TSHIRTS[Len(TSHIRTS)]
  /\ Cardinality({ i \in 1..Len(TSHIRTS) : TSHIRTS[i] = last.val }) = 1

\* C20: the default configuration has exactly the keys background, skin,
\* tshirt, expression and hair, and each of its values is a member of the
\* legal set of its key; so has the default configuration of the export
\* utilities, and so has the state of a picker mounted without a value.
C20_DefaultLegal ==
  /\ (last.op = "mount" /\ value = NoValue) => IsLegal(config)
  /\ DOMAIN defaultConfig = AvatarConfig
  /\ \A k \in AvatarConfig : defaultConfig[k] \in Range(Options(k))
  /\ DOMAIN exportDefaultConfig = AvatarConfig
  /\ \A k \in AvatarConfig : exportDefaultConfig[k] \in Range(Options(k))

\* A picker mounted without a value shows the default configuration, a
\* legal one.
C20_Witness ==
  /\ last.op = "mount"
  /\ value = NoValue
  /\ config = defaultConfig
  /\ config \in LegalConfigurations

\* ------------------------------------------------------------------------
\* Properties of consecutive operations and render cycles
\* ------------------------------------------------------------------------

\* C21: no update is lost: a setAttribute(k, v) that follows a setAttribute
\* or a randomize on the same picker, also when no render cycle ran between
\* them, stores and emits the configuration the first one produced with
\* only k replaced by v.
C21_NoLostUpdate ==
  [][ ( /\ pending # NoValue
        /\ ops' = ops + 1
        /\ last'.op = "updateConfig" )
      => /\ pending' = [ pending EXCEPT ![last'.key] = last'.val ]
         /\ hasOnChange => emitted' = pending' ]_vars

\* ------------------------------------------------------------------------
\* Properties of the promise of generatePngBase64
\* ------------------------------------------------------------------------

\* The positions of an effect in the effects of the call.
Positions(e) == { i \in 1..Len(effects) : effects[i] = e }

\* C22: in a browser a generatePngBase64 call settles once: whatever the
\* order and number of load and error events, a settled promise never
\* changes; the data URL it resolves with is taken from the canvas after the
\* load event and after the image was drawn at the size of the call.
C22_SettlesOnce ==
  /\ [][ (png # NoValue /\ png.state \in { "resolved", "rejected" })
           => png' = png ]_vars
  /\ []( (png # NoValue /\ png.state = "resolved") =>
           /\ Events # << >> /\ Events[1] = "onload"
           /\ \E i \in Positions("onload") :
                /\ effects[i + 1] = "drawImage"
                /\ effects[i + 2] = "toDataURL"
           /\ png.value =
                canvasToDataURL(generateSvg(call.config, call.size),
                                sizeOr(call.size, DefaultSvgSize)) )

\* The image fired load and then error: the promise is still resolved.
C22_Witness ==
  /\ call.fn = "generatePngBase64"
  /\ Events = << "onload", "onerror" >>
  /\ result.state = "resolved"
  /\ png = result

\* C23: generatePngBase64 starts one image decode per call, the src being
\* assigned once; once the canvas context was obtained the promise settles
\* only when the image fires load or error: with no event it stays pending,
\* and a downloadPng awaiting it saves nothing.
C23_OneDecodeNoTimeout ==
  (call.fn \in { "generatePngBase64", "downloadPng" }
     /\ call.window /\ call.ctx) =>
    /\ Cardinality(Positions("img.src")) = 1
    /\ Events = << >> =>
         /\ png.state = "pending"
         /\ result.state = "pending"
         /\ anchor = NoValue
         /\ documentBody = {}

\* C25: the export pipeline has one encoder: in every environment where
\* generatePngBase64 passes its environment check (and gets a canvas
\* context), the data URL it assigns as the src of the image is
\* generateBase64(config, size) of that environment.
C25_SingleEncoder ==
  (call.fn \in { "generatePngBase64", "downloadPng" }
     /\ call.window /\ call.ctx) =>
    /\ "img.src" \in Range(effects)
    /\ png.state = "pending" =>
         png.value = generateBase64(call.config, call.size, call.btoa)

\* ------------------------------------------------------------------------
\* Properties of render cycles and of the sync
\* ------------------------------------------------------------------------

\* C24 as stated: after operations each followed by a render cycle, the
\* next setAttribute(k, v) emits the configuration the last operation
\* emitted with only k replaced by v.
C24_AsStated ==
  [][ ( /\ hasOnChange /\ ops > 0
        /\ last.op = "render"
        /\ last'.op = "updateConfig" )
      => emitted' = [ emitted EXCEPT ![last'.key] = last'.val ] ]_vars

\* C24, amended: after operations each followed by a render cycle, and
\* provided no render cycle since the last operation brought a changed
\* external configuration, the next setAttribute(k, v) emits the
\* configuration the last operation emitted with only k replaced by v.
C24_OperatesOnLastEmitted ==
  [][ ( /\ hasOnChange /\ ops > 0
        /\ last.op = "render"
        /\ ~synced
        /\ last'.op = "updateConfig" )
      => emitted' = [ emitted EXCEPT ![last'.key] = last'.val ] ]_vars

\* A randomize drew the last value of every kind, a render cycle followed,
\* and a setAttribute('background', 'coralRed') emitted that configuration
\* with only the background replaced.
C24_Witness ==
  /\ last.op = "updateConfig" /\ ops = 2 /\ hasOnChange /\ ~synced
  /\ config = [ k \in AvatarConfig |-> Options(k)[Len(Options(k))] ]
  /\ last.key = "background" /\ last.val = "coralRed"
  /\ emitted = [ config EXCEPT !["background"] = "coralRed" ]

\* C27: the sync runs only when the external configuration changes: a render
\* cycle with the same external configuration as the render before, or with
\* none, leaves the SelectionState as setAttribute and randomize made it.
C27_SyncOnlyOnChange ==
  [][ ( /\ last'.op = "render"
        /\ (last'.val = "same" \/ value' = NoValue) )
      => config' = renderedState ]_vars

\* A controlled picker whose parent ignored onChange was rendered again with
\* the same external configuration: it shows the configuration it emitted,
\* not the external one.
C27_Witness ==
  /\ last.op = "render" /\ last.val = "same"
  /\ value # NoValue /\ hasOnChange /\ ops > 0
  /\ config = emitted
  /\ config # value

\* C28: with a parent that passes the emitted configuration back as value,
\* every setAttribute or randomize is followed by a render cycle after which
\* the SelectionState is the external configuration and nothing is pending;
\* no render cycle invokes onChange, and no render cycle schedules another.
C28_FeedbackSettles ==
  /\ [](last.op = "render" =>
          /\ pending = NoValue
          /\ config = value
          /\ ops > 0 => value = emitted)
  /\ [][ last'.op = "render" => calls' = calls /\ emitted' = emitted ]_vars
  /\ [](pending = NoValue => ~ENABLED FeedbackRender)
  /\ (pending # NoValue) ~> (pending = NoValue /\ config = value)

\* Two operations, each fed back, then a further render: the picker shows
\* the external configuration, and onChange was invoked twice.
C28_Witness ==
  /\ last.op = "render" /\ last.val = "same"
  /\ ops = 2 /\ calls = 2
  /\ pending = NoValue
  /\ config = value /\ value = emitted
  /\ value \notin ValueSamples

\* C29: in every state of a picker whose external configurations are legal,
\* the SelectionState, rendered or pending, has the five keys and a legal
\* value for each, and so has every configuration passed to onChange.
C29_AlwaysLegal ==
  /\ IsLegal(config)
  /\ pending # NoValue => IsLegal(pending)
  /\ emitted # NoValue => IsLegal(emitted)

\* A picker synced to a new external configuration, then randomized.
C29_Witness ==
  /\ last.op = "handleRandom"
  /\ value # NoValue /\ prevValue # NoValue /\ value # prevValue
  /\ config = value
  /\ IsLegal(pending) /\ pending # config
  /\ emitted = pending

\* The kinds whose option array holds the value v.
KindsOf(v) == { k \in AvatarConfig : v \in Range(Options(k)) }

\* C30: no value is in two of BACKGROUNDS, SKINS, TSHIRTS, EXPRESSIONS and
\* HAIRS: the button titled v belongs to one kind, and clicking it changes
\* that kind and no other.
C30_DistinctAcrossKinds ==
  /\ \A k1, k2 \in AvatarConfig :
       k1 # k2 => Range(Options(k1)) \cap Range(Options(k2)) = {}
  /\ \A k \in AvatarConfig : KindsOf(config[k]) = { k }
  /\ last.op = "updateConfig" =>
       /\ KindsOf(last.val) = { last.key }
       /\ \A k \in AvatarConfig :
            pending[k] # config[k] => k = last.key

\* The button titled 'softPink' was clicked on a picker showing the pink
\* tshirt: the background changed, and the tshirt and the rest did not.
C30_Witness ==
  /\ last.op = "updateConfig" /\ last.val = "softPink"
  /\ config.tshirt = "pink" /\ config.background = "peach"
  /\ pending = [ config EXCEPT !["background"] = "softPink" ]

\* C26: the Avatar component and generateSvg resolve every partial
\* configuration to the same five values, whether a key is absent, present
\* with the value undefined or present with a legal value, and the default
\* configuration of the component equals the one generateSvg merges with.
C26_SameResolution ==
  /\ defaultConfig = exportDefaultConfig
  /\ (call.fn \in { "generateSvg", "Avatar" } /\ call.config # NoValue) =>
       \A k \in AvatarConfig :
         avatarValues(call.config)[k] = mergedConfig(call.config)[k]

\* The same, for the partial configurations that hold no undefined value.
C26_SameResolutionOfDefined ==
  /\ defaultConfig = exportDefaultConfig
  /\ ( /\ call.fn \in { "generateSvg", "Avatar" }
       /\ call.config # NoValue
       /\ \A k \in DOMAIN call.config : call.config[k] # undefined ) =>
       \A k \in AvatarConfig :
         avatarValues(call.config)[k] = mergedConfig(call.config)[k]

====
